---- MODULE Spec2Model ----
(***************************************************************************)
(* A model of the wordle solver in src/main.rs: the feedback codec         *)
(* (to_ternary, from_ternary), the scorer (score_guess), the candidate set *)
(* (build_remaining_candidates, filter_candidates) and the entropy ranker  *)
(* (score_against_dictionary, scores_to_entropy, compute_best_guesses).    *)
(*                                                                         *)
(* A word is a 5-tuple of one-character strings, as [char; 5].  A score is *)
(* a u16.  An f64 is a record of a kind ("num", "nan", "-inf") and integer *)
(* fields: a frequency in thousandths, a likelihood as an order-keeping    *)
(* code (4.3), an entropy bit for bit as a fixed-point number (4.5).       *)
(***************************************************************************)
EXTENDS Integers, Sequences, FiniteSets, TLC

VARIABLES
    freq_entries,          \* main: Vec<([char; 5], f64)>, read-only after read_words
    remaining_candidates,  \* main: HashMap<&[char; 5], f64>, word -> likelihood
    best_guesses,          \* what compute_best_guesses returned, if it ran last
    status,                \* "ready" | "ranked" | "panicked" | "load_panicked"
    observations,          \* history: the set of (word, score) pairs narrowed with
    call                   \* the last call of a pure function, with its result

vars == <<freq_entries, remaining_candidates, best_guesses, status,
          observations, call>>

----------------------------------------------------------------------------
(* Constants of the program.                                               *)

\* [char; 5]: the length of a word and of a feedback pattern.
WORD_LEN == 5

\* const MAX_SCORE: usize = 3_usize.pow(5)
MAX_SCORE == 3 ^ WORD_LEN

\* The values of a u16 are 0..U16 - 1.
U16 == 2 ^ 16

\* The builds of the program: arithmetic overflow panics in a debug build
\* and wraps in a release build.
Builds == {"debug", "release"}

Range(s) == {s[i] : i \in 1..Len(s)}

----------------------------------------------------------------------------
(* 4.1 Feedback codec.                                                     *)

\* to_ternary's digit of one character: 'y' is 1, 'g' is 2, anything else 0.
TernaryDigit(ch) == IF ch = "y" THEN 1 ELSE IF ch = "g" THEN 2 ELSE 0

\* to_ternary's loop from the character at 1-based position i on.  ret * 3
\* + digit leaves the u16 from the 11th character on: the debug build
\* panics there, the release build wraps.
RECURSIVE ToTernaryFrom(_, _, _, _)
ToTernaryFrom(result, i, ret, build) ==
    IF i > Len(result) THEN [panic |-> FALSE, ret |-> ret]
    ELSE LET next == ret * 3 + TernaryDigit(result[i]) IN
         IF next >= U16 /\ build = "debug" THEN [panic |-> TRUE, ret |-> ret]
         ELSE ToTernaryFrom(result, i + 1, next % U16, build)

\* to_ternary as the given build runs it.
to_ternary(result, build) == ToTernaryFrom(result, 1, 0, build)

\* from_ternary's character of one base-3 digit.
TernaryChar(digit) == IF digit = 1 THEN "y" ELSE IF digit = 2 THEN "g" ELSE "b"

\* A from_ternary that writes the least significant digit leftmost.
from_ternary_lsb_first(t) ==
    [i \in 1..WORD_LEN |-> TernaryChar((t \div (3 ^ (i - 1))) % 3)]

\* from_ternary's while loop; pos is the 0-based index of the last digit
\* written.  pos -= 1 on a usize of 0 (a sixth digit) has no result.
RECURSIVE FromTernaryLoop(_, _, _)
FromTernaryLoop(t, pos, ret) ==
    IF t > 0
    THEN IF pos = 0 THEN <<"panic">>
         ELSE FromTernaryLoop(t \div 3, pos - 1,
                              [ret EXCEPT ![pos] = TernaryChar(t % 3)])
    ELSE ret

from_ternary(t) == FromTernaryLoop(t, WORD_LEN, <<"b", "b", "b", "b", "b">>)

----------------------------------------------------------------------------
(* 4.2 Guess scorer.                                                       *)

\* 3_u16.pow(4_u32 - idx as u32), idx 0-based.
Pow3(idx) == 3 ^ (4 - idx)

\* An exact-match pass that records Correct and consumes nothing.
RECURSIVE ExactPassNoConsume(_, _)
ExactPassNoConsume(st, idx) ==
    IF idx >= Len(st.g) THEN st
    ELSE IF st.g[idx + 1] = st.c[idx + 1]
         THEN ExactPassNoConsume([st EXCEPT !.ret = (@ + Pow3(idx) * 2) % U16],
                                 idx + 1)
         ELSE ExactPassNoConsume(st, idx + 1)

\* The first loop of score_guess: exact matches are consumed in both copies.
\* st = [g, c, ret]; idx is 0-based.  ret is at most 2 * (81 + 27 + 9 + 3 +
\* 1) + 81 + 27 + 9 + 3 + 1 and never leaves the u16, in either build.
RECURSIVE ExactPass(_, _)
ExactPass(st, idx) ==
    IF idx >= Len(st.g) THEN st
    ELSE IF st.g[idx + 1] = st.c[idx + 1]
         THEN ExactPass([g   |-> [st.g EXCEPT ![idx + 1] = ":"],
                         c   |-> [st.c EXCEPT ![idx + 1] = "?"],
                         ret |-> (st.ret + Pow3(idx) * 2) % U16], idx + 1)
         ELSE ExactPass(st, idx + 1)

\* The inner loop of the second pass: the first cidx with c[cidx] = g[idx],
\* or Len(c) when there is none.
RECURSIVE FirstMatch(_, _, _)
FirstMatch(c, ch, cidx) ==
    IF cidx >= Len(c) THEN Len(c)
    ELSE IF c[cidx + 1] = ch THEN cidx
    ELSE FirstMatch(c, ch, cidx + 1)

\* A present pass that leaves the matched candidate position unconsumed.
RECURSIVE PresentPassNoConsume(_, _)
PresentPassNoConsume(st, idx) ==
    IF idx >= Len(st.g) THEN st
    ELSE IF FirstMatch(st.c, st.g[idx + 1], 0) < Len(st.c)
         THEN PresentPassNoConsume([st EXCEPT !.ret = (@ + Pow3(idx)) % U16],
                                   idx + 1)
         ELSE PresentPassNoConsume(st, idx + 1)

\* The second loop of score_guess, over every idx (the consumed ones too).
RECURSIVE PresentPass(_, _)
PresentPass(st, idx) ==
    IF idx >= Len(st.g) THEN st
    ELSE LET cidx == FirstMatch(st.c, st.g[idx + 1], 0) IN
         IF cidx < Len(st.c)
         THEN PresentPass([g   |-> st.g,
                           c   |-> [st.c EXCEPT ![cidx + 1] = "?"],
                           ret |-> (st.ret + Pow3(idx)) % U16], idx + 1)
         ELSE PresentPass(st, idx + 1)

\* A scorer that looks for present letters before the exact matches.
ScoreGuessRunPresentFirst(guess, candidate) ==
    ExactPass(PresentPass([g |-> guess, c |-> candidate, ret |-> 0], 0), 0)

\* score_guess with its locals at return: g and c are clones of the arguments.
ScoreGuessRun(guess, candidate) ==
    PresentPass(ExactPass([g |-> guess, c |-> candidate, ret |-> 0], 0), 0)

score_guess(guess, candidate) == ScoreGuessRun(guess, candidate).ret

----------------------------------------------------------------------------
(* 4.3 Likelihood model.  A frequency is held in thousandths (Val(2) is    *)
(* the f64 0.002), the fitted value in thousandths too.                    *)

Val(v) == [kind |-> "num", v |-> v]

\* 0.0 / 0.0: the mean compute_overall_freq takes of a line with no sample.
ValNaN == [kind |-> "nan", v |-> 0]

\* quadratic_curve_fit: -19970122538.988*x*x + 41168735.495139*x - 10
quadratic_curve_fit(x) ==
    IF x.kind = "nan" THEN ValNaN
    ELSE Val(-19970123 * x.v * x.v + 41168735 * x.v - 10000)

\* (-x).exp() is +inf from x < -709.782 on, and 1/(1 + inf) is 0.0.
EXP_OVERFLOW == 709782

\* 1 + (-x).exp() rounds to 1.0 from x >= 36.737 on.
SATURATION == 36737

\* sigmoid: 1/(1 + (-x).exp()).  The f64 result is held as an order-keeping
\* code: 0 is 0.0, SATURATION + EXP_OVERFLOW + 1 is 1.0, and the codes in
\* between rise with x as the f64 values in (0.0, 1.0) do.
sigmoid(x) ==
    IF x.kind = "nan" THEN ValNaN
    ELSE IF x.v < -EXP_OVERFLOW THEN Val(0)
    ELSE IF x.v >= SATURATION THEN Val(SATURATION + EXP_OVERFLOW + 1)
    ELSE Val(x.v + EXP_OVERFLOW + 1)

\* a > 0.0 of a likelihood: false of NaN.
Positive(a) == a.kind = "num" /\ a.v > 0

----------------------------------------------------------------------------
(* 4.4 Candidate set.  A HashMap is a function from its keys; the order it *)
(* iterates in follows the random seed of its hasher, and a function that  *)
(* iterates takes that order as keys.                                      *)

EmptyMap == [w \in {} |-> 0]

\* The orders a map of key set S may iterate in.
RECURSIVE KeyOrders(_)
KeyOrders(S) ==
    IF S = {} THEN {<<>>}
    ELSE UNION {{<<k>> \o keys : keys \in KeyOrders(S \ {k})} : k \in S}

\* HashMap::insert
Insert(map, key, value) ==
    [k \in DOMAIN map \cup {key} |-> IF k = key THEN value ELSE map[k]]

\* The loop of build_remaining_candidates from entry i on.
RECURSIVE BuildFrom(_, _, _)
BuildFrom(entries, i, remaining) ==
    IF i > Len(entries) THEN remaining
    ELSE LET likelihood == sigmoid(quadratic_curve_fit(entries[i][2])) IN
         BuildFrom(entries, i + 1,
                   IF Positive(likelihood)
                   THEN Insert(remaining, entries[i][1], likelihood)
                   ELSE remaining)

build_remaining_candidates(entries) == BuildFrom(entries, 1, EmptyMap)

\* HashMap::remove
Remove(map, key) == [k \in DOMAIN map \ {key} |-> map[k]]

\* A filter that scores the candidate against the word.
RECURSIVE RetainLoopSwapped(_, _, _, _, _)
RetainLoopSwapped(word, score, candidates, keys, i) ==
    IF i > Len(keys) THEN candidates
    ELSE RetainLoopSwapped(word, score,
                           IF score_guess(keys[i], word) = score THEN candidates
                           ELSE Remove(candidates, keys[i]),
                           keys, i + 1)

filter_candidates_swapped(word, score, candidates, keys) ==
    RetainLoopSwapped(word, score, candidates, keys, 1)

\* A filter that keeps the entries the observation rules out.
RECURSIVE RetainLoopInverted(_, _, _, _, _)
RetainLoopInverted(word, score, candidates, keys, i) ==
    IF i > Len(keys) THEN candidates
    ELSE RetainLoopInverted(word, score,
                            IF score_guess(word, keys[i]) # score THEN candidates
                            ELSE Remove(candidates, keys[i]),
                            keys, i + 1)

filter_candidates_inverted(word, score, candidates, keys) ==
    RetainLoopInverted(word, score, candidates, keys, 1)

\* candidates.retain(|candidate, _freq| score_guess(word, candidate) ==
\* score) from the i-th key on: an entry whose closure is false is removed.
RECURSIVE RetainLoop(_, _, _, _, _)
RetainLoop(word, score, candidates, keys, i) ==
    IF i > Len(keys) THEN candidates
    ELSE RetainLoop(word, score,
                    IF score_guess(word, keys[i]) = score THEN candidates
                    ELSE Remove(candidates, keys[i]),
                    keys, i + 1)

\* filter_candidates: the map after the call.
filter_candidates(word, score, candidates, keys) ==
    RetainLoop(word, score, candidates, keys, 1)

\* ret.sort_by(|a, b| a.1.partial_cmp(&b.1).unwrap()) of read_words: a stable
\* sort by frequency.  InsertByFreq puts e behind the entries not above it.
RECURSIVE InsertByFreq(_, _)
InsertByFreq(sorted, e) ==
    IF sorted = <<>> THEN <<e>>
    ELSE IF sorted[Len(sorted)][2].v <= e[2].v THEN Append(sorted, e)
    ELSE Append(InsertByFreq(SubSeq(sorted, 1, Len(sorted) - 1), e),
                sorted[Len(sorted)])

RECURSIVE SortByFreq(_, _, _)
SortByFreq(entries, i, sorted) ==
    IF i > Len(entries) THEN sorted
    ELSE SortByFreq(entries, i + 1, InsertByFreq(sorted, entries[i]))

\* read_words, from the parsed lines (word, mean frequency) in file order.
\* partial_cmp is None on a NaN and unwrap panics; a sort of two or more
\* entries compares every one of them, a sort of one compares nothing.
read_words(lines) ==
    IF /\ Len(lines) >= 2
       /\ \E i \in 1..Len(lines) : lines[i][2].kind = "nan"
    THEN [panic |-> TRUE, ret |-> lines]
    ELSE [panic |-> FALSE, ret |-> SortByFreq(lines, 1, <<>>)]

----------------------------------------------------------------------------
(* 4.5 Entropy ranker.  An f64 of the ranker in [0.0, 8.0) is held bit for *)
(* bit: every such value the ranker computes is a multiple of 2^-55, and   *)
(* [kind |-> "num", hi, lo] is the f64 (hi * LIMB + lo) * 2^-55.  NaN and  *)
(* -inf are kinds of their own; a call that panics returns kind "panic".   *)

\* The two limbs of a value: lo is in 0..LIMB - 1.
LIMB == 2 ^ 29

F64(hi, lo) == [kind |-> "num", hi |-> hi, lo |-> lo]
NaN == [kind |-> "nan", hi |-> 0, lo |-> 0]
NegInf == [kind |-> "-inf", hi |-> 0, lo |-> 0]
Panic == [kind |-> "panic", hi |-> 0, lo |-> 0]

\* let mut entropy = 0.0
Zero == F64(0, 0)

\* a > 0.0: false of NaN and of -inf.
GtZero(a) == a.kind = "num" /\ (a.hi > 0 \/ a.lo > 0)

\* !(a <= 0.0): true of NaN.
NotLeZero(a) == a.kind = "nan" \/ GtZero(a)

\* a.partial_cmp(&b) is Less or Equal; both are numbers.
LessEq(a, b) == a.hi < b.hi \/ (a.hi = b.hi /\ a.lo <= b.lo)

\* The number of bits of n.
RECURSIVE BitLen(_)
BitLen(n) == IF n = 0 THEN 0 ELSE 1 + BitLen(n \div 2)

\* The f64 sum of two numbers that are not negative: the exact sum, rounded
\* to the 53 bits of an f64 significand, a tie to the even neighbour.  The
\* sum has BitLen(hi) + 29 bits, and those below the 53rd are in lo.
F64Add(a, b) ==
    LET lo0  == a.lo + b.lo
        hi   == a.hi + b.hi + (lo0 \div LIMB)
        lo   == lo0 % LIMB
        drop == BitLen(hi) + 29 - 53
    IN  IF drop <= 0 THEN F64(hi, lo)
        ELSE LET ulp  == 2 ^ drop
                 rem  == lo % ulp
                 down == lo - rem
                 up   == \/ 2 * rem > ulp
                         \/ 2 * rem = ulp /\ (down \div ulp) % 2 = 1
                 lo1  == IF up THEN down + ulp ELSE down
             IN  F64(hi + (lo1 \div LIMB), lo1 % LIMB)

\* -(guess_prob * guess_prob.log2()) for guess_prob = score as f64 / len as
\* f64, as the f64 operations give it: NEG_INFORMATION[len][score], for
\* 1 <= score <= len <= 8.  Of guess_prob = 1.0 it is 0.0.
NEG_INFORMATION ==
    << << <<0, 0>> >>,
       << <<33554432, 0>>, <<0, 0>> >>,
       << <<35455010, 520048236>>, <<26170779, 145311620>>, <<0, 0>> >>,
       << <<33554432, 0>>, <<33554432, 0>>, <<20889521, 172068748>>,
          <<0, 0>> >>,
       << <<31164391, 186570704>>, <<35485237, 51018860>>,
          <<29674154, 160496204>>, <<17283382, 531534454>>, <<0, 0>> >>,
       << <<28912316, 81067146>>, <<35455010, 520048236>>, <<33554432, 0>>,
          <<26170779, 145311620>>, <<14709950, 75350224>>, <<0, 0>> >>,
       << <<26914057, 50933276>>, <<34654153, 25170708>>,
          <<35157157, 97733144>>, <<30960383, 433820644>>,
          <<23268887, 431996730>>, <<12792430, 502249666>>, <<0, 0>> >>,
       << <<25165824, 0>>, <<33554432, 0>>, <<35610584, 354469832>>,
          <<33554432, 0>>, <<28440397, 20946324>>, <<20889521, 172068748>>,
          <<11312168, 157795724>>, <<0, 0>> >> >>

NegInformation(score, len) ==
    F64(NEG_INFORMATION[len][score][1], NEG_INFORMATION[len][score][2])

\* A distribution that counts a candidate of likelihood 1.0 twice.
RECURSIVE ScoreLoopWeighted(_, _, _, _)
ScoreLoopWeighted(guess, dictionary, keys, ret) ==
    IF keys = <<>> THEN [panic |-> FALSE, ret |-> ret]
    ELSE LET word_score == score_guess(guess, keys[1]) IN
         ScoreLoopWeighted(guess, dictionary, Tail(keys),
             [ret EXCEPT ![word_score] =
                 @ + (IF dictionary[keys[1]] = sigmoid(Val(SATURATION))
                      THEN 2 ELSE 1)])

score_against_dictionary_weighted(guess, dictionary, keys) ==
    ScoreLoopWeighted(guess, dictionary, keys,
                      [b \in 0..(MAX_SCORE - 1) |-> 0])

\* The loop of score_against_dictionary over the keys from the i-th on;
\* ret[word_score as usize] is out of bounds from MAX_SCORE on.
RECURSIVE ScoreLoop(_, _, _, _)
ScoreLoop(guess, keys, i, ret) ==
    IF i > Len(keys) THEN [panic |-> FALSE, ret |-> ret]
    ELSE LET word_score == score_guess(guess, keys[i]) IN
         IF word_score >= MAX_SCORE THEN [panic |-> TRUE, ret |-> ret]
         ELSE ScoreLoop(guess, keys, i + 1,
                        [ret EXCEPT ![word_score] = @ + 1])

\* score_against_dictionary: the [i32; MAX_SCORE] of bucket counts; keys is
\* dictionary.keys() in the order the map iterates in.
score_against_dictionary(guess, dictionary, keys) ==
    ScoreLoop(guess, keys, 1, [b \in 0..(MAX_SCORE - 1) |-> 0])

\* One turn of the loop of scores_to_entropy, for a bucket of score # 0 and
\* len > 0: entropy -= information.  A guess_prob below 0.0 has a NaN log2.
EntropyStep(score, len, entropy) ==
    IF entropy.kind = "nan" \/ score < 0 THEN NaN
    ELSE F64Add(entropy, NegInformation(score, len))

\* The loop of scores_to_entropy from bucket i on, over the buckets of
\* score # 0 in rising order (the set left); a bucket of score 0 has
\* guess_prob == 0.0 and subtracts 0.0.
RECURSIVE EntropyLoop(_, _, _, _)
EntropyLoop(scores, len, left, entropy) ==
    IF left = {} THEN entropy
    ELSE LET i == CHOOSE b \in left : \A o \in left : b <= o IN
         EntropyLoop(scores, len, left \ {i},
                     EntropyStep(scores[i], len, entropy))

\* scores_to_entropy; frequencies.len() is the number of keys.  Of an empty
\* map the guess_prob of a bucket of score 0 is 0/0, a NaN: guess_prob ==
\* 0.0 is false, the information is NaN * NaN.log2() and the entropy is NaN
\* from there on; a score above 0 has guess_prob +inf and information +inf,
\* a score below 0 has guess_prob -inf and information NaN.
scores_to_entropy(scores, frequencies) ==
    LET len == Cardinality(DOMAIN frequencies) IN
    IF len = 0
    THEN IF \E b \in DOMAIN scores : scores[b] <= 0 THEN NaN ELSE NegInf
    ELSE EntropyLoop(scores, len, {b \in DOMAIN scores : scores[b] # 0}, Zero)

\* compute_guess_power
compute_guess_power(guess, frequencies, keys) ==
    LET scores == score_against_dictionary(guess, frequencies, keys) IN
    IF scores.panic THEN Panic
    ELSE scores_to_entropy(scores.ret, frequencies)

\* An insertion that sorts by falling entropy.
RECURSIVE InsertByPowerDescending(_, _)
InsertByPowerDescending(sorted, e) ==
    IF sorted = <<>> THEN <<e>>
    ELSE IF LessEq(e[2], sorted[Len(sorted)][2]) THEN Append(sorted, e)
    ELSE Append(InsertByPowerDescending(SubSeq(sorted, 1, Len(sorted) - 1), e),
                sorted[Len(sorted)])

\* ret.sort_by(|a, b| a.1.partial_cmp(&b.1).unwrap()) of
\* compute_best_guesses: a stable sort by entropy.
RECURSIVE InsertByPower(_, _)
InsertByPower(sorted, e) ==
    IF sorted = <<>> THEN <<e>>
    ELSE IF LessEq(sorted[Len(sorted)][2], e[2]) THEN Append(sorted, e)
    ELSE Append(InsertByPower(SubSeq(sorted, 1, Len(sorted) - 1), e),
                sorted[Len(sorted)])

RECURSIVE SortByPower(_, _, _)
SortByPower(entries, i, sorted) ==
    IF i > Len(entries) THEN sorted
    ELSE SortByPower(entries, i + 1, InsertByPower(sorted, entries[i]))

\* A loop that pushes every guess whose power is not <= 0.0, a NaN too.
RECURSIVE GuessLoopNotLeZero(_, _, _, _, _)
GuessLoopNotLeZero(entries, remaining, keys, i, ret) ==
    IF i > Len(entries) THEN [panic |-> FALSE, ret |-> ret]
    ELSE LET guess == entries[i][1]
             guess_power == compute_guess_power(guess, remaining, keys) IN
         IF guess_power.kind = "panic" THEN [panic |-> TRUE, ret |-> ret]
         ELSE GuessLoopNotLeZero(entries, remaining, keys, i + 1,
                                 IF NotLeZero(guess_power)
                                 THEN Append(ret, <<guess, guess_power>>)
                                 ELSE ret)

\* The loop of compute_best_guesses from entry i on: ret before the sort.
RECURSIVE GuessLoop(_, _, _, _, _)
GuessLoop(entries, remaining, keys, i, ret) ==
    IF i > Len(entries) THEN [panic |-> FALSE, ret |-> ret]
    ELSE LET guess == entries[i][1]
             guess_power == compute_guess_power(guess, remaining, keys) IN
         IF guess_power.kind = "panic" THEN [panic |-> TRUE, ret |-> ret]
         ELSE GuessLoop(entries, remaining, keys, i + 1,
                        IF GtZero(guess_power)
                        THEN Append(ret, <<guess, guess_power>>)
                        ELSE ret)

\* compute_best_guesses; keys is remaining_candidates.keys() in the order
\* the map iterates in.  partial_cmp is None on a NaN and unwrap panics, and
\* a sort of two or more entries compares every one of them.
compute_best_guesses(entries, remaining, keys) ==
    LET pushed == GuessLoop(entries, remaining, keys, 1, <<>>) IN
    IF pushed.panic THEN pushed
    ELSE IF /\ Len(pushed.ret) >= 2
            /\ \E i \in 1..Len(pushed.ret) : pushed.ret[i][2].kind = "nan"
    THEN [panic |-> TRUE, ret |-> pushed.ret]
    ELSE [panic |-> FALSE, ret |-> SortByPower(pushed.ret, 1, <<>>)]

----------------------------------------------------------------------------
(* Inputs of the pure functions.                                           *)

\* The letters the scored words are drawn from.
Alphabet == {"a", "m", "p"}

\* The words of tests::test_score.
TestWords == { <<"a","a","e","m","p">>, <<"m","a","a","p","h">>,
               <<"m","a","p","p","a">> }

\* The words score_guess is called on: every word over Alphabet, and the
\* words of the test.
Words == [1..WORD_LEN -> Alphabet] \cup TestWords

\* The feedback strings: 5 characters over b, y, g.
Patterns == [1..WORD_LEN -> {"b", "y", "g"}]

\* No pure function has been called yet.
NoCall == [fn |-> "none"]

\* A call score_guess(&guess, &candidate): the arguments are shared borrows,
\* which the callee cannot write; guess_after and candidate_after are the
\* caller's words when the call returns.
ScoreGuess ==
    /\ call = NoCall
    /\ \E guess \in Words, candidate \in Words :
        /\ call' = [fn |-> "score_guess", guess |-> guess,
                    candidate |-> candidate,
                    ret |-> score_guess(guess, candidate),
                    guess_after |-> guess, candidate_after |-> candidate]
        /\ UNCHANGED <<freq_entries, remaining_candidates, best_guesses,
                       status, observations>>

\* Before a call of a pure function: no session is under way.
InitPure ==
    /\ freq_entries = <<>>
    /\ remaining_candidates = <<>>
    /\ best_guesses = <<>>
    /\ status = "ready"
    /\ observations = {}
    /\ call = NoCall

SpecScore == InitPure /\ [][ScoreGuess]_vars

\* Feedback strings of more than 10 characters, whose value leaves the u16.
Overlong == { [i \in 1..11 |-> "g"],
              [i \in 1..12 |-> IF i = 1 THEN "y" ELSE "b"] }

\* A call to_ternary(result), in either build, on a 5-character pattern
\* over b, y, g or on an overlong string.
ToTernary ==
    /\ call = NoCall
    /\ \E result \in Patterns \cup Overlong, build \in Builds :
        /\ call' = [fn |-> "to_ternary", result |-> result, build |-> build,
                    panic |-> to_ternary(result, build).panic,
                    ret |-> to_ternary(result, build).ret]
        /\ UNCHANGED <<freq_entries, remaining_candidates, best_guesses,
                       status, observations>>

\* A call from_ternary(t) on a score in [0, MAX_SCORE).
FromTernary ==
    /\ call = NoCall
    /\ \E t \in 0..(MAX_SCORE - 1) :
        /\ call' = [fn |-> "from_ternary", t |-> t, ret |-> from_ternary(t)]
        /\ UNCHANGED <<freq_entries, remaining_candidates, best_guesses,
                       status, observations>>

SpecCodec == InitPure /\ [][ToTernary \/ FromTernary]_vars

----------------------------------------------------------------------------
(* A solving session: main's read_words and build_remaining_candidates,    *)
(* then filter_candidates once per observation and compute_best_guesses.   *)

\* The words of the data file, in file order.
FileWords == << <<"m","a","a","p","h">>, <<"t","a","r","e","s">>,
                <<"a","a","e","m","p">>, <<"m","a","p","p","a">> >>

\* Mean frequencies, in thousandths: 0 has a likelihood just above 0.0, 1 a
\* likelihood of 1.0, and 3 a likelihood of 0.0; a line with no sample has
\* the mean NaN.
Freqs == {Val(0), Val(1), Val(3), ValNaN}

\* The words an observation may have guessed, and the feedback a secret of
\* the file gives to each.
ObsGuesses == { <<"t","a","r","e","s">>, <<"m","a","a","p","h">> }

ObsScores(word) ==
    {score_guess(word, FileWords[i]) : i \in 1..Len(FileWords)}

\* The most observations of a session; main makes three.
MaxObs == 3

\* main up to its first filter_candidates, on a file of the first n words:
\* read_words and build_remaining_candidates; a panic of read_words ends
\* the program before a session begins.
Init ==
    /\ \E n \in 0..Len(FileWords) :
          \E f \in [1..n -> Freqs] :
             LET words == read_words([i \in 1..n |-> <<FileWords[i], f[i]>>]) IN
             IF words.panic
             THEN /\ status = "load_panicked"
                  /\ freq_entries = <<>>
             ELSE /\ status = "ready"
                  /\ freq_entries = words.ret
    /\ remaining_candidates = build_remaining_candidates(freq_entries)
    /\ best_guesses = <<>>
    /\ observations = {}
    /\ call = NoCall

\* main: filter_candidates(&word, score, &mut remaining_candidates), the
\* map iterating in any order of its keys.  A value compute_best_guesses
\* returned before is of the earlier set and is dropped.
FilterCandidates ==
    /\ status \in {"ready", "ranked"}
    /\ Cardinality(observations) < MaxObs
    /\ \E word \in ObsGuesses :
          \E score \in ObsScores(word) :
             \E keys \in KeyOrders(DOMAIN remaining_candidates) :
                /\ remaining_candidates' =
                       filter_candidates(word, score, remaining_candidates,
                                         keys)
                /\ observations' = observations \cup {<<word, score>>}
    /\ status' = "ready"
    /\ best_guesses' = <<>>
    /\ UNCHANGED <<freq_entries, call>>

\* main: let best_guesses = compute_best_guesses(&freq_entries,
\* &remaining_candidates); both arguments are shared borrows, and the map
\* iterates in any order of its keys.
ComputeBestGuesses ==
    /\ status \in {"ready", "ranked"}
    /\ \E keys \in KeyOrders(DOMAIN remaining_candidates) :
          LET r == compute_best_guesses(freq_entries, remaining_candidates,
                                        keys) IN
          IF r.panic
          THEN status' = "panicked" /\ best_guesses' = <<>>
          ELSE status' = "ranked" /\ best_guesses' = r.ret
    /\ UNCHANGED <<freq_entries, remaining_candidates, observations, call>>

Next == FilterCandidates \/ ComputeBestGuesses

Spec == Init /\ [][Next]_vars

----------------------------------------------------------------------------
(* Claims about the scorer and the codec.                                  *)

\* The base-3 digit of score t at 1-based position i, leftmost first.
DigitAt(t, i) == (t \div (3 ^ (WORD_LEN - i))) % 3

Count(w, x) == Cardinality({k \in 1..Len(w) : w[k] = x})

Scored == call.fn = "score_guess"

\* C3: for every letter x, the guess positions holding x that the score marks
\* Correct or Present are at most the occurrences of x in the candidate; and
\* "aaemp" scores "ygbyy" against "maaph" and against "mappa".
C3_PresentNeverExceedsOccurrences ==
    Scored =>
        /\ \A x \in Range(call.guess) :
              Cardinality({i \in 1..WORD_LEN :
                              /\ call.guess[i] = x
                              /\ DigitAt(call.ret, i) \in {1, 2}})
                 <= Count(call.candidate, x)
        /\ ( /\ call.guess = <<"a","a","e","m","p">>
             /\ call.candidate \in { <<"m","a","a","p","h">>,
                                     <<"m","a","p","p","a">> } )
              => from_ternary(call.ret) = <<"y","g","b","y","y">>

\* C3's case: the guess repeats a letter more often than the candidate holds
\* it, so one copy is marked and another is not; and the test's pair.
C3_Witness ==
    /\ Scored
    /\ call.guess = <<"a","a","e","m","p">>
    /\ call.candidate = <<"m","a","p","p","a">>
    /\ from_ternary(call.ret) = <<"y","g","b","y","y">>

\* C4: score(w, w) is 242, which decodes to "ggggg", for every word w,
\* repeated letters included.
C4_SelfScorePerfect ==
    (Scored /\ call.guess = call.candidate) =>
        /\ call.ret = MAX_SCORE - 1
        /\ from_ternary(call.ret) = <<"g","g","g","g","g">>

\* C4's case: a word with a repeated letter scored against itself.
C4_Witness ==
    /\ Scored
    /\ call.guess = call.candidate
    /\ call.guess = <<"m","a","p","p","a">>
    /\ call.ret = 242

\* C5: to_ternary(from_ternary(s)) = s for every s in [0, 242], and
\* from_ternary(to_ternary(p)) = p for every 5-character pattern p over
\* b, y, g; the leftmost character is the most significant base-3 digit.
C5_CodecBijection ==
    /\ call.fn = "from_ternary" =>
          /\ call.ret \in Patterns
          /\ \A build \in Builds :
                to_ternary(call.ret, build) = [panic |-> FALSE, ret |-> call.t]
          /\ \A i \in 1..WORD_LEN :
                TernaryDigit(call.ret[i]) = DigitAt(call.t, i)
    /\ (call.fn = "to_ternary" /\ call.result \in Patterns) =>
          /\ ~call.panic
          /\ call.ret \in 0..(MAX_SCORE - 1)
          /\ from_ternary(call.ret) = call.result
          /\ \A i \in 1..WORD_LEN :
                DigitAt(call.ret, i) = TernaryDigit(call.result[i])

\* C5's case: a score whose digits differ by position has been decoded.
C5_Witness ==
    /\ call.fn = "from_ternary"
    /\ call.t = 2 * 81 + 1
    /\ call.ret = <<"g","b","b","b","y">>

\* The two-pass reference of C10.  RefPresent(g, c, i, used) is the set of
\* non-Correct guess positions from i on that are Present, where used is the
\* set of candidate positions consumed by an exact match or by an earlier
\* guess position.
RECURSIVE RefPresent(_, _, _, _)
RefPresent(g, c, i, used) ==
    IF i > WORD_LEN THEN {}
    ELSE IF g[i] = c[i] THEN RefPresent(g, c, i + 1, used)
    ELSE LET free == {k \in 1..WORD_LEN : k \notin used /\ c[k] = g[i]} IN
         IF free = {} THEN RefPresent(g, c, i + 1, used)
         ELSE LET k == CHOOSE m \in free : \A n \in free : m <= n IN
              {i} \cup RefPresent(g, c, i + 1, used \cup {k})

RefDigit(g, c, i) ==
    IF g[i] = c[i] THEN 2
    ELSE IF i \in RefPresent(g, c, 1, {k \in 1..WORD_LEN : g[k] = c[k]}) THEN 1
    ELSE 0

\* C10: score_guess equals the two-pass reference: position i is Correct iff
\* guess[i] = candidate[i]; a position that is not Correct is Present iff,
\* going left to right, an unconsumed candidate position still holds
\* guess[i]; otherwise Absent.  Each position gives one digit in {0, 1, 2},
\* the result is in [0, 242], and the caller's words are unmodified.
C10_ScoreIsTwoPassReference ==
    Scored =>
        /\ call.ret \in 0..(MAX_SCORE - 1)
        /\ \A i \in 1..WORD_LEN :
              DigitAt(call.ret, i) = RefDigit(call.guess, call.candidate, i)
        /\ \A build \in Builds :
              to_ternary([i \in 1..WORD_LEN |->
                  TernaryChar(RefDigit(call.guess, call.candidate, i))], build)
                 = [panic |-> FALSE, ret |-> call.ret]
        /\ call.guess_after = call.guess
        /\ call.candidate_after = call.candidate

\* C10's case: a Correct position whose letter also sits elsewhere in the
\* candidate, and a repeated guess letter of which only the first is Present.
C10_Witness ==
    /\ Scored
    /\ call.guess = <<"p","a","a","a","m">>
    /\ call.candidate = <<"a","a","p","m","m">>
    /\ from_ternary(call.ret) = <<"y","g","y","b","g">>

----------------------------------------------------------------------------
(* Claims about a solving session.                                         *)

Ranked == status = "ranked"

\* The initial candidate set C0 of the session.
C0 == build_remaining_candidates(freq_entries)

\* One of the orders a map of key set S iterates in.
RECURSIVE OneOrder(_)
OneOrder(S) ==
    IF S = {} THEN <<>>
    ELSE LET k == CHOOSE x \in S : TRUE IN <<k>> \o OneOrder(S \ {k})

Candidates == DOMAIN remaining_candidates

\* c is consistent with every observation made so far.
Consistent(c) == \A o \in observations : score_guess(o[1], c) = o[2]

\* filter_candidates applied to map once per observation of obs, in order.
RECURSIVE NarrowAll(_, _, _)
NarrowAll(map, obs, i) ==
    IF i > Len(obs) THEN map
    ELSE NarrowAll(filter_candidates(obs[i][1], obs[i][2], map,
                                     OneOrder(DOMAIN map)),
                   obs, i + 1)

\* The sequences that hold each observation of set S once.
Orders(S) ==
    {obs \in [1..Cardinality(S) -> S] : Range(obs) = S}

\* C1: after any sequence of filter_candidates calls the candidate set is
\* exactly the words of C0 whose score against every observed word is the
\* observed score, each with its likelihood, in whatever order the map
\* iterated at each call (FilterCandidates takes every order); applying the
\* observations in any other order gives the same set.
C1_CandidatesAreTheConsistentWords ==
    status \in {"ready", "ranked"} =>
        LET initial == C0 IN
        /\ Candidates = {c \in DOMAIN initial : Consistent(c)}
        /\ \A c \in Candidates : remaining_candidates[c] = initial[c]
        /\ \A obs \in Orders(observations) :
              NarrowAll(initial, obs, 1) = remaining_candidates

\* C1's case: two observations of different words, each of which rules a
\* candidate of C0 out, one of them leaving two, and one candidate that
\* survived both.
C1_Witness ==
    /\ Cardinality(observations) = 2
    /\ Cardinality(DOMAIN C0) = 4
    /\ Cardinality(Candidates) = 1
    /\ \A o \in observations :
          /\ Cardinality(DOMAIN filter_candidates(o[1], o[2], C0,
                                            OneOrder(DOMAIN C0))) < 4
          /\ \E other \in observations : other[1] # o[1]
    /\ \E o \in observations :
          Cardinality(DOMAIN filter_candidates(o[1], o[2], C0,
                                            OneOrder(DOMAIN C0))) = 2

\* A step of filter_candidates that changes the state: with a new
\* observation, or on a set that compute_best_guesses has ranked.
IsNarrowStep == observations' # observations \/ (Ranked /\ status' = "ready")

\* C2: one filter_candidates call never makes the set larger, never adds a
\* word that was not in it, and leaves only entries whose score against the
\* observed word is the observed score.
C2_NarrowOnlyShrinks ==
    [][IsNarrowStep =>
         /\ Cardinality(DOMAIN remaining_candidates')
               <= Cardinality(DOMAIN remaining_candidates)
         /\ DOMAIN remaining_candidates' \subseteq DOMAIN remaining_candidates
         /\ \A o \in observations' \ observations :
               \A c \in DOMAIN remaining_candidates' :
                   score_guess(o[1], c) = o[2]]_vars

\* C2's case: a call that removed one candidate and kept others.
C2_Witness ==
    /\ Cardinality(observations) = 1
    /\ Cardinality(DOMAIN C0) = 3
    /\ Cardinality(Candidates) = 2

\* The guess power main's ranking computes for the i-th dictionary word
\* when the candidate map iterates in the order keys.
PowerOf(i, keys) ==
    compute_guess_power(freq_entries[i][1], remaining_candidates, keys)

\* C6: over an empty candidate set the entropy of every guess is 0, no
\* bucket probability being the undefined ratio 0/0.
C6_EmptySetEntropyIsZero ==
    (Ranked /\ Candidates = {}) =>
        \A i \in 1..Len(freq_entries) :
            \A keys \in KeyOrders(Candidates) : PowerOf(i, keys) = Zero

\* C7: a session never fails: filter_candidates and compute_best_guesses
\* complete from every reachable state, an empty candidate set included;
\* ranking against an empty candidate set returns an empty sequence; and
\* ranking leaves the candidate set and the dictionary as they were.
C7_NoFailureTransition ==
    /\ [](status # "panicked")
    /\ []((Ranked /\ Candidates = {}) => best_guesses = <<>>)
    /\ [][status' = "ranked" =>
            /\ remaining_candidates' = remaining_candidates
            /\ freq_entries' = freq_entries]_vars

\* C7's case: the ranking has run on a candidate set narrowed to empty.
C7_Witness ==
    /\ Ranked
    /\ observations # {}
    /\ DOMAIN C0 # {}
    /\ Candidates = {}
    /\ best_guesses = <<>>

\* The feedback outcomes word w has over the remaining candidates.
Outcomes(w) == {score_guess(w, c) : c \in Candidates}

RankedWords == {best_guesses[i][1] : i \in 1..Len(best_guesses)}

\* C8: over a non-empty candidate set compute_best_guesses returns a
\* sequence sorted non-decreasing by entropy with no entry of entropy <= 0;
\* the entropy of a guess is exactly 0 when it has one feedback outcome over
\* the candidates, and such a guess is not in the output; every dictionary
\* word with two or more outcomes is, a candidate or not.
C8_RankingSortedAndPositive ==
    (Ranked /\ Candidates # {}) =>
        /\ \A i, j \in 1..Len(best_guesses) :
              i < j => LessEq(best_guesses[i][2], best_guesses[j][2])
        /\ \A i \in 1..Len(best_guesses) : GtZero(best_guesses[i][2])
        /\ \A i \in 1..Len(freq_entries) :
              \A keys \in KeyOrders(Candidates) :
                 LET w == freq_entries[i][1] IN
                 /\ Cardinality(Outcomes(w)) = 1 =>
                       /\ PowerOf(i, keys) = Zero
                       /\ w \notin RankedWords
                 /\ Cardinality(Outcomes(w)) >= 2 =>
                       \E k \in 1..Len(best_guesses) :
                           best_guesses[k] = <<w, PowerOf(i, keys)>>

\* C8's case: a ranking of entries of different entropies, one of them a
\* dictionary word that is no candidate.
C8_Witness ==
    /\ Ranked
    /\ Cardinality(Candidates) = 3
    /\ Len(best_guesses) = 4
    /\ ~LessEq(best_guesses[4][2], best_guesses[1][2])
    /\ RankedWords \ Candidates # {}

\* The likelihoods a candidate may carry.
Likelihoods == {l \in {sigmoid(quadratic_curve_fit(f)) : f \in Freqs} :
                   Positive(l)}

\* The sum of the bucket counts of a distribution.
RECURSIVE SumOver(_, _)
SumOver(scores, left) ==
    IF left = {} THEN 0
    ELSE LET b == CHOOSE x \in left : TRUE IN
         scores[b] + SumOver(scores, left \ {b})

Total(scores) == SumOver(scores, {b \in DOMAIN scores : scores[b] # 0})

\* C9: the feedback distribution, the entropy of every guess and the ranked
\* sequence depend on the words of the candidate set only: the map
\* iterating in any order gives the same buckets, and a candidate set of
\* the same words with other likelihoods gives the same buckets, the same
\* entropy and the same ranking as the one compute_best_guesses returned,
\* in whatever order it iterated; and the bucket counts of a guess sum to
\* the number of candidates.
C9_LikelihoodsAreIgnored ==
    status \in {"ready", "ranked"} =>
        LET one == OneOrder(Candidates) IN
        /\ \A i \in 1..Len(freq_entries) :
              LET guess == freq_entries[i][1]
                  scores == score_against_dictionary(guess, remaining_candidates,
                                                     one) IN
              /\ DOMAIN scores.ret = 0..(MAX_SCORE - 1)
              /\ Total(scores.ret) = Cardinality(Candidates)
              /\ \A keys \in KeyOrders(Candidates) :
                    score_against_dictionary(guess, remaining_candidates, keys)
                       = scores
              /\ \A v \in Likelihoods :
                    LET other == [c \in Candidates |-> v] IN
                    /\ score_against_dictionary(guess, other, one) = scores
                    /\ compute_guess_power(guess, other, one) = PowerOf(i, one)
        /\ Ranked =>
              \A v \in Likelihoods :
                  compute_best_guesses(freq_entries, [c \in Candidates |-> v],
                                       one).ret = best_guesses

\* C9's case: a ranking over candidates of different likelihoods.
C9_Witness ==
    /\ Ranked
    /\ Len(best_guesses) >= 2
    /\ \E c, d \in Candidates :
          remaining_candidates[c] # remaining_candidates[d]

====
